---------------------------- MODULE Spec2Model ----------------------------
(***************************************************************************)
(* ExpenseScreen (src/unnamed/part_000): the expense form, the SQLite      *)
(* table behind it, the week / month filters and the per-category totals.  *)
(*                                                                         *)
(* Text is a sequence of one-character strings, so that trim(), parseFloat *)
(* and Number() are computed character by character.  A JS number is a    *)
(* tuple: <<v>> is v hundredths (12.50 is <<1250>>) and <<>> is NaN.       *)
(* An instant (a JS Date) is a whole number of hours since                 *)
(* 1970-01-01T00:00Z; a time zone is its offset from UTC in hours.  A      *)
(* stored date "YYYY-MM-DD" is the triple <<y, m, d>>.                     *)
(***************************************************************************)
EXTENDS Integers, Sequences, FiniteSets, TLC

VARIABLES
    db,              \* rows of table expenses (durable)
    seq,             \* sqlite_sequence: the largest id AUTOINCREMENT has assigned
    expenses,        \* useState([]): the record set in memory
    amount,          \* useState(''): add form, amount text
    category,        \* useState(''): add form, category text
    note,            \* useState(''): add form, note text
    filter,          \* useState('ALL')
    editingExpense,  \* useState(null): the record in the edit panel
    queue,           \* statements issued to the database, not yet run
    resolved,        \* statements run, whose awaiting handler has not resumed
    now,             \* the device clock, hours since the epoch
    tz,              \* the device time zone, hours east of UTC
    assigned,        \* history: every id a row has ever had
    overlapped       \* history: a handler was started while another awaited

vars == <<db, seq, expenses, amount, category, note, filter, editingExpense,
          queue, resolved, now, tz, assigned, overlapped>>

(***************************************************************************)
(* Bounds                                                                  *)
(***************************************************************************)
MaxInserts == 2
MaxInFlight == 2

\* JS values: a number is <<v>>, NaN is <<>>; null is <<>>, an object o is <<o>>
NaN == <<>>
Num(v) == <<v>>
null == <<>>

(***************************************************************************)
(* Text                                                                    *)
(***************************************************************************)
Digits == {"0", "1", "2", "3", "4", "5", "6", "7", "8", "9"}

DigitVal(c) ==
    CASE c = "0" -> 0 [] c = "1" -> 1 [] c = "2" -> 2 [] c = "3" -> 3
      [] c = "4" -> 4 [] c = "5" -> 5 [] c = "6" -> 6 [] c = "7" -> 7
      [] c = "8" -> 8 [] c = "9" -> 9

RECURSIVE TrimStart(_)
TrimStart(s) ==
    IF s # <<>> /\ Head(s) = " " THEN TrimStart(Tail(s)) ELSE s

RECURSIVE TrimEnd(_)
TrimEnd(s) ==
    IF s # <<>> /\ s[Len(s)] = " " THEN TrimEnd(SubSeq(s, 1, Len(s) - 1)) ELSE s

\* String.prototype.trim
Trim(s) == TrimEnd(TrimStart(s))

\* the number of leading decimal digits of s
RECURSIVE DigitRun(_)
DigitRun(s) ==
    IF s # <<>> /\ Head(s) \in Digits THEN 1 + DigitRun(Tail(s)) ELSE 0

\* the value of a string of decimal digits
RECURSIVE DigitsValue(_)
DigitsValue(s) ==
    IF s = <<>> THEN 0
    ELSE 10 * DigitsValue(SubSeq(s, 1, Len(s) - 1)) + DigitVal(s[Len(s)])

\* hundredths denoted by the fraction digits f (the inputs have at most two)
FractionValue(f) ==
    IF Len(f) = 0 THEN 0
    ELSE IF Len(f) = 1 THEN 10 * DigitVal(f[1])
    ELSE 10 * DigitVal(f[1]) + DigitVal(f[2])

\* The longest prefix of s that is a StrDecimalLiteral: [sign] digits [. digits]
\* or [sign] . digits.  used = 0 when there is none.
DecimalPrefix(s) ==
    LET signed == s # <<>> /\ Head(s) \in {"+", "-"}
        body   == IF signed THEN Tail(s) ELSE s
        n      == DigitRun(body)
        rest   == SubSeq(body, n + 1, Len(body))
        dot    == rest # <<>> /\ Head(rest) = "."
        f      == IF dot THEN DigitRun(Tail(rest)) ELSE 0
        mag    == 100 * DigitsValue(SubSeq(body, 1, n))
                    + FractionValue(SubSeq(rest, 2, 1 + f))
        sgn    == IF signed /\ Head(s) = "-" THEN -1 ELSE 1
    IN  IF n = 0 /\ f = 0 THEN [used |-> 0, value |-> 0]
        ELSE [used  |-> (IF signed THEN 1 ELSE 0) + n + (IF dot THEN 1 + f ELSE 0),
              value |-> sgn * mag]

\* parseFloat(text): leading white space skipped, trailing text ignored
parseFloat(s) ==
    LET p == DecimalPrefix(TrimStart(s))
    IN  IF p.used = 0 THEN NaN ELSE Num(p.value)

\* Number(text): the whole trimmed text must be a numeric literal; '' is 0
Number(s) ==
    LET t == Trim(s)
        p == DecimalPrefix(t)
    IN  IF t = <<>> THEN Num(0)
        ELSE IF p.used = Len(t) THEN Num(p.value) ELSE NaN


(***************************************************************************)
(* Dates.  Daylight saving changes are not modelled: the offset of a       *)
(* device is fixed.                                                        *)
(***************************************************************************)
\* civil date <<y, m, d>> (m in 1..12) to days since 1970-01-01
DaysFromCivil(y, m, d) ==
    LET yy  == IF m <= 2 THEN y - 1 ELSE y
        era == yy \div 400
        yoe == yy - era * 400
        doy == (153 * (IF m > 2 THEN m - 3 ELSE m + 9) + 2) \div 5 + d - 1
        doe == yoe * 365 + yoe \div 4 - yoe \div 100 + doy
    IN  era * 146097 + doe - 719468

\* days since 1970-01-01 to the civil date <<y, m, d>>
CivilFromDays(z) ==
    LET zz  == z + 719468
        era == zz \div 146097
        doe == zz - era * 146097
        yoe == (doe - doe \div 1460 + doe \div 36524 - doe \div 146096) \div 365
        doy == doe - (365 * yoe + yoe \div 4 - yoe \div 100)
        mp  == (5 * doy + 2) \div 153
        d   == doy - (153 * mp + 2) \div 5 + 1
        m   == IF mp < 10 THEN mp + 3 ELSE mp - 9
    IN  <<(yoe + era * 400) + (IF m <= 2 THEN 1 ELSE 0), m, d>>

\* new Date().toISOString().slice(0, 10): the calendar date of instant t in UTC
ToISODate(t) == CivilFromDays(t \div 24)

\* new Date("YYYY-MM-DD"): a date-only string is midnight UTC of that date
DateFromISO(dateStr) == 24 * DaysFromCivil(dateStr[1], dateStr[2], dateStr[3])

\* the day (since the epoch) on which instant t falls on a device at offset z
LocalDay(t, z) == (t + z) \div 24

\* Date.prototype.getFullYear / getMonth (0-based) / getDate / getDay (0 = Sun)
getFullYear(t, z) == CivilFromDays(LocalDay(t, z))[1]
getMonth(t, z) == CivilFromDays(LocalDay(t, z))[2] - 1
getDate(t, z) == CivilFromDays(LocalDay(t, z))[3]
getDay(t, z) == (LocalDay(t, z) + 4) % 7

\* new Date(year, monthIndex, day): local midnight; day may be <= 0 or past
\* the month's end, and then runs into the neighbouring month
NewLocalDate(y, m0, day, z) == 24 * (DaysFromCivil(y, m0 + 1, 1) + day - 1) - z

\* Date.prototype.toDateString: the local calendar date, as weekday and date
toDateString(t, z) == <<getDay(t, z), CivilFromDays(LocalDay(t, z))>>

getWeekStart(date, z) ==
    LET day  == getDay(date, z)
        diff == getDate(date, z) - day + (IF day = 0 THEN -6 ELSE 1)
    IN  NewLocalDate(getFullYear(date, z), getMonth(date, z), diff, z)

isSameMonth(dateStr, t, z) ==
    LET d == DateFromISO(dateStr)
    IN  /\ getFullYear(d, z) = getFullYear(t, z)
        /\ getMonth(d, z) = getMonth(t, z)

isSameWeek(dateStr, t, z) ==
    LET d == DateFromISO(dateStr)
    IN  toDateString(getWeekStart(d, z), z) = toDateString(getWeekStart(t, z), z)

(***************************************************************************)
(* The table.  A row is [id, amount, category, note, date].                *)
(***************************************************************************)
Ids(table) == {r.id : r \in table}

MaxOf(S) == IF S = {} THEN 0 ELSE CHOOSE x \in S : \A y \in S : y <= x

\* INTEGER PRIMARY KEY without AUTOINCREMENT: one more than the largest id in
\* the table, so that the id of a deleted last row is given out again
NextRowIdReusing(table, s) == MaxOf(Ids(table)) + 1

\* id INTEGER PRIMARY KEY AUTOINCREMENT: one more than the largest id the table
\* has ever held, which sqlite_sequence records
NextRowId(table, s) == MaxOf(Ids(table) \cup {s}) + 1

\* UPDATE without its WHERE clause: every row takes the new fields
UpdateEveryRow(table, r) == {[r EXCEPT !.id = x.id] : x \in table}

\* UPDATE expenses SET amount = ?, category = ?, note = ?, date = ? WHERE id = ?
UpdateRows(table, r) == {IF x.id = r.id THEN r ELSE x : x \in table}

\* DELETE with <= for = : the older rows go as well
DeleteRowsUpTo(table, id) == {x \in table : x.id > id}

\* DELETE FROM expenses WHERE id = ?
DeleteRows(table, id) == {x \in table : x.id # id}

\* SELECT * FROM expenses ORDER BY id ASC
RECURSIVE SelectAllAscending(_)
SelectAllAscending(table) ==
    IF table = {} THEN <<>>
    ELSE LET last == CHOOSE x \in table : x.id = MaxOf(Ids(table))
         IN  Append(SelectAllAscending(table \ {last}), last)

\* SELECT * FROM expenses ORDER BY id DESC
RECURSIVE SelectAll(_)
SelectAll(table) ==
    IF table = {} THEN <<>>
    ELSE LET first == CHOOSE x \in table : x.id = MaxOf(Ids(table))
         IN  <<first>> \o SelectAll(table \ {first})

(***************************************************************************)
(* Derived views (useMemo / getChartData): functions of the state.         *)
(***************************************************************************)
\* filteredExpenses, of the list exps at instant t on a device at offset z
FilterBy(exps, f, t, z) ==
    IF f = "ALL" THEN exps
    ELSE IF f = "WEEK" THEN
        LET Keep(e) == isSameWeek(e.date, t, z) IN SelectSeq(exps, Keep)
    ELSE IF f = "MONTH" THEN
        LET Keep(e) == isSameMonth(e.date, t, z) IN SelectSeq(exps, Keep)
    ELSE exps

filteredExpenses == FilterBy(expenses, filter, now, tz)

\* list.reduce((sum, e) => sum + e.amount, 0)
RECURSIVE SumAmounts(_)
SumAmounts(list) ==
    IF list = <<>> THEN 0
    ELSE SumAmounts(SubSeq(list, 1, Len(list) - 1)) + list[Len(list)].amount[1]

totalSpending == Num(SumAmounts(filteredExpenses))

(***************************************************************************)
(* A plain object used as a map: its own properties in creation order,     *)
(* each [key, num, v]: the number v when num, and otherwise a string (what *)
(* += makes of a value that is no number).  A key the object does not own  *)
(* is looked up in Object.prototype.                                       *)
(***************************************************************************)
ValueOfText == <<"v", "a", "l", "u", "e", "O", "f">>
ToStringText == <<"t", "o", "S", "t", "r", "i", "n", "g">>
OtherText == <<"O", "t", "h", "e", "r">>

\* names every object inherits (those the inputs can spell)
ObjectPrototypeKeys == {ValueOfText, ToStringText}

HasOwn(map, k) == \E i \in 1..Len(map) : map[i].key = k

OwnIndex(map, k) == CHOOSE i \in 1..Len(map) : map[i].key = k

\* !map[k]: undefined, 0 and NaN are falsy; a function or a non-empty string is not
Falsy(map, k) ==
    IF HasOwn(map, k)
    THEN map[OwnIndex(map, k)].num /\ map[OwnIndex(map, k)].v = 0
    ELSE k \notin ObjectPrototypeKeys

\* map[k] = [num, v]: assigns in place, or creates the property last
SetProp(map, k, num, v) ==
    IF HasOwn(map, k)
    THEN [map EXCEPT ![OwnIndex(map, k)] = [key |-> k, num |-> num, v |-> v]]
    ELSE Append(map, [key |-> k, num |-> num, v |-> v])

\* map[k] += a, for a number a: number + number, and otherwise (a string, or
\* an inherited function) string concatenation
PlusAssign(map, k, a) ==
    IF HasOwn(map, k) /\ map[OwnIndex(map, k)].num
    THEN SetProp(map, k, TRUE, map[OwnIndex(map, k)].v + a)
    ELSE SetProp(map, k, FALSE, 0)

\* if (!map[k]) map[k] = 0;  map[k] += a;
Accumulate(map, k, a) ==
    PlusAssign(IF Falsy(map, k) THEN SetProp(map, k, TRUE, 0) ELSE map, k, a)

\* an integer index: a canonical numeric string, which own-property order
\* puts first, in ascending numeric order
IsArrayIndex(k) ==
    /\ k # <<>>
    /\ \A i \in 1..Len(k) : k[i] \in Digits
    /\ (Len(k) = 1 \/ k[1] # "0")

RECURSIVE AscendingByIndex(_)
AscendingByIndex(S) ==
    IF S = {} THEN <<>>
    ELSE LET least == CHOOSE x \in S :
                          \A y \in S : DigitsValue(x.key) <= DigitsValue(y.key)
         IN  <<least>> \o AscendingByIndex(S \ {least})

\* the own properties in the order Object.keys / values / entries list them
OwnProperties(map) ==
    LET IsNamed(e) == ~IsArrayIndex(e.key)
    IN  AscendingByIndex({map[i] : i \in {j \in 1..Len(map) : IsArrayIndex(map[j].key)}})
            \o SelectSeq(map, IsNamed)

ObjectKeys(map) == [i \in 1..Len(map) |-> OwnProperties(map)[i].key]

ObjectValues(map) ==
    [i \in 1..Len(map) |->
        [num |-> OwnProperties(map)[i].num, v |-> OwnProperties(map)[i].v]]

\* totalsByCategory over a list: forEach in list order
RECURSIVE TotalsOf(_)
TotalsOf(list) ==
    IF list = <<>> THEN <<>>
    ELSE LET e == list[Len(list)]
         IN  Accumulate(TotalsOf(SubSeq(list, 1, Len(list) - 1)),
                        e.category, e.amount[1])

totalsByCategory == TotalsOf(filteredExpenses)

\* getChartData's loop: category || 'Other', Number(amount) || 0
RECURSIVE ChartTotalsOf(_)
ChartTotalsOf(list) ==
    IF list = <<>> THEN <<>>
    ELSE LET e == list[Len(list)]
         IN  Accumulate(ChartTotalsOf(SubSeq(list, 1, Len(list) - 1)),
                        IF e.category = <<>> THEN OtherText ELSE e.category,
                        e.amount[1])

getChartData ==
    [labels |-> ObjectKeys(ChartTotalsOf(expenses)),
     values |-> ObjectValues(ChartTotalsOf(expenses))]

(***************************************************************************)
(* Inputs                                                                  *)
(***************************************************************************)
\* what the user types into the add form (the fields start empty)
AmountTexts == {<<"5">>}
CategoryTexts == {<<" ", "b">>}
NoteTexts == {<<"n", " ">>}

\* the add form's texts where validation is examined
FormAmountTexts == {<<"5">>, <<"0">>, <<"-", "3">>, <<"7", ",", "5">>}
FormCategoryTexts == {<<" ", "b">>, <<" ">>}

\* what the user types into the edit panel
EditAmountTexts == {<<"0">>}
PanelAmountTexts == {<<"0">>, <<"7", ",", "5">>}
PanelCategoryTexts == {<<>>}
PanelNoteTexts == {<<>>}

Filters == {"ALL", "WEEK", "MONTH"}

\* the device's offset from UTC, in hours
TimeZones == {-8, 0, 9}

\* instants the clock passes through: Wed 2024-06-05 12:00Z, Tue 2024-06-11
\* 02:00Z (still Monday evening at UTC-8), Mon 2024-07-01 20:00Z
Instants ==
    {24 * DaysFromCivil(2024, 6, 5) + 12,
     24 * DaysFromCivil(2024, 6, 11) + 2,
     24 * DaysFromCivil(2024, 7, 1) + 20}

(***************************************************************************)
(* The database connection runs the statements it is given one at a time,  *)
(* in the order of issue, and their promises resolve in that order.        *)
(***************************************************************************)
BlankRow ==
    [id |-> 0, amount |-> NaN, category |-> <<>>, note |-> <<>>, date |-> <<0, 0, 0>>]

Request(op, from, row) == [op |-> op, from |-> from, row |-> row]

Result(r, ok, changes, lastInsertRowId, rows) ==
    [op |-> r.op, from |-> r.from, ok |-> ok, changes |-> changes,
     lastInsertRowId |-> lastInsertRowId, rows |-> rows]

\* handlers that have started and not run to completion
InFlight == Len(queue) + Len(resolved)

Idle == InFlight = 0

\* INSERT statements issued so far
InsertsIssued ==
    seq + Cardinality({i \in 1..Len(queue) : queue[i].op = "insert"})

\* a handler reaches its first await: the statement goes to the database
Issue(r) ==
    /\ InFlight < MaxInFlight
    /\ queue' = Append(queue, r)
    /\ overlapped' = (overlapped \/ InFlight > 0)

\* The statement r on the table: [table, seq, res].  A NaN parameter is bound
\* as NULL, which amount REAL NOT NULL refuses.
Run(table, s, r) ==
    IF r.op = "insert" THEN
        LET id == NextRowId(table, s)
        IN  [table |-> table \cup {[r.row EXCEPT !.id = id]}, seq |-> id,
             res |-> Result(r, TRUE, 1, id, <<>>)]
    ELSE IF r.op = "update" THEN
        IF r.row.amount = NaN
        THEN [table |-> table, seq |-> s, res |-> Result(r, FALSE, 0, 0, <<>>)]
        ELSE [table |-> UpdateRows(table, r.row), seq |-> s,
              res |-> Result(r, TRUE,
                             Cardinality({x \in table : x.id = r.row.id}), 0, <<>>)]
    ELSE IF r.op = "delete" THEN
        [table |-> DeleteRows(table, r.row.id), seq |-> s,
         res |-> Result(r, TRUE,
                        Cardinality({x \in table : x.id = r.row.id}), 0, <<>>)]
    ELSE IF r.op = "select" THEN
        [table |-> table, seq |-> s, res |-> Result(r, TRUE, 0, 0, SelectAll(table))]
    ELSE \* CREATE TABLE IF NOT EXISTS
        [table |-> table, seq |-> s, res |-> Result(r, TRUE, 0, 0, <<>>)]

(***************************************************************************)
(* The state after the first render and its effect: setup() has issued     *)
(* CREATE TABLE IF NOT EXISTS on an empty store.                           *)
(***************************************************************************)
Init ==
    /\ db = {}
    /\ seq = 0
    /\ expenses = <<>>
    /\ amount = <<>>
    /\ category = <<>>
    /\ note = <<>>
    /\ filter = "ALL"
    /\ editingExpense = null
    /\ queue = <<Request("exec", "setup", BlankRow)>>
    /\ resolved = <<>>
    /\ now = 24 * DaysFromCivil(2024, 6, 5) + 12
    /\ tz = 0
    /\ assigned = {}
    /\ overlapped = FALSE

(***************************************************************************)
(* Handlers                                                                *)
(***************************************************************************)
setAmount(text) ==
    /\ amount' = text
    /\ UNCHANGED <<db, seq, expenses, category, note, filter, editingExpense,
                   queue, resolved, now, tz, assigned, overlapped>>

setCategory(text) ==
    /\ category' = text
    /\ UNCHANGED <<db, seq, expenses, amount, note, filter, editingExpense,
                   queue, resolved, now, tz, assigned, overlapped>>

setNote(text) ==
    /\ note' = text
    /\ UNCHANGED <<db, seq, expenses, amount, category, filter, editingExpense,
                   queue, resolved, now, tz, assigned, overlapped>>

setFilter(f) ==
    /\ filter' = f
    /\ UNCHANGED <<db, seq, expenses, amount, category, note, editingExpense,
                   queue, resolved, now, tz, assigned, overlapped>>

\* the row addExpense hands to INSERT
NewExpense ==
    [id |-> 0, amount |-> parseFloat(amount), category |-> Trim(category),
     note |-> Trim(note), date |-> ToISODate(now)]

\* addExpense, to its first await
addExpense ==
    LET amountNumber == parseFloat(amount)
        trimmedCategory == Trim(category)
    IN  IF amountNumber = NaN \/ amountNumber[1] <= 0 THEN UNCHANGED vars
        ELSE IF trimmedCategory = <<>> THEN UNCHANGED vars
        ELSE /\ InsertsIssued < MaxInserts
             /\ Issue(Request("insert", "addExpense", NewExpense))
             /\ UNCHANGED <<db, seq, expenses, amount, category, note, filter,
                            editingExpense, resolved, now, tz, assigned>>

\* deleteExpense(item.id), to its first await: a row on display is tapped
deleteExpense(id) ==
    /\ \E i \in 1..Len(filteredExpenses) : filteredExpenses[i].id = id
    /\ Issue(Request("delete", "deleteExpense", [BlankRow EXCEPT !.id = id]))
    /\ UNCHANGED <<db, seq, expenses, amount, category, note, filter,
                   editingExpense, resolved, now, tz, assigned>>

\* Edit on a row on display: setEditingExpense(item)
startEdit(i) ==
    /\ i \in 1..Len(filteredExpenses)
    /\ editingExpense' = <<filteredExpenses[i]>>
    /\ UNCHANGED <<db, seq, expenses, amount, category, note, filter,
                   queue, resolved, now, tz, assigned, overlapped>>

\* the edit panel's fields; the panel is rendered while editingExpense is set
editAmount(text) ==
    /\ editingExpense # null
    /\ editingExpense' = <<[editingExpense[1] EXCEPT !.amount = Number(text)]>>
    /\ UNCHANGED <<db, seq, expenses, amount, category, note, filter,
                   queue, resolved, now, tz, assigned, overlapped>>

editCategory(text) ==
    /\ editingExpense # null
    /\ editingExpense' = <<[editingExpense[1] EXCEPT !.category = text]>>
    /\ UNCHANGED <<db, seq, expenses, amount, category, note, filter,
                   queue, resolved, now, tz, assigned, overlapped>>

editNote(text) ==
    /\ editingExpense # null
    /\ editingExpense' = <<[editingExpense[1] EXCEPT !.note = text]>>
    /\ UNCHANGED <<db, seq, expenses, amount, category, note, filter,
                   queue, resolved, now, tz, assigned, overlapped>>

cancelEdit ==
    /\ editingExpense # null
    /\ editingExpense' = null
    /\ UNCHANGED <<db, seq, expenses, amount, category, note, filter,
                   queue, resolved, now, tz, assigned, overlapped>>

\* handleSaveEdit, to its first await (note || '' of a text is the text)
handleSaveEdit ==
    /\ editingExpense # null
    /\ Issue(Request("update", "handleSaveEdit", editingExpense[1]))
    /\ UNCHANGED <<db, seq, expenses, amount, category, note, filter,
                   editingExpense, resolved, now, tz, assigned>>

\* the database runs the oldest statement issued
Exec ==
    /\ queue # <<>>
    /\ LET out == Run(db, seq, Head(queue))
       IN  /\ db' = out.table
           /\ seq' = out.seq
           /\ assigned' = assigned \cup Ids(out.table)
           /\ resolved' = Append(resolved, out.res)
    /\ queue' = Tail(queue)
    /\ UNCHANGED <<expenses, amount, category, note, filter, editingExpense,
                   now, tz, overlapped>>

\* loadExpenses, to its await: the SELECT goes to the database
loadExpenses(from) == Request("select", from, BlankRow)

\* The handler awaiting the oldest resolved statement resumes and runs to its
\* next await, or to its end.  A rejected statement ends it with the error.
Resume ==
    /\ resolved # <<>>
    /\ resolved' = Tail(resolved)
    /\ LET d == Head(resolved)
       IN  IF d.op = "select" THEN \* loadExpenses: setExpenses(rows)
               /\ expenses' = d.rows
               /\ editingExpense' =
                     IF d.from = "handleSaveEdit" THEN null ELSE editingExpense
               /\ UNCHANGED <<amount, category, note, queue>>
           ELSE IF ~d.ok THEN
               UNCHANGED <<expenses, editingExpense, amount, category, note, queue>>
           ELSE \* await loadExpenses()
               /\ queue' = Append(queue, loadExpenses(d.from))
               /\ amount' = IF d.op = "insert" THEN <<>> ELSE amount
               /\ category' = IF d.op = "insert" THEN <<>> ELSE category
               /\ note' = IF d.op = "insert" THEN <<>> ELSE note
               /\ UNCHANGED <<expenses, editingExpense>>
    /\ UNCHANGED <<db, seq, filter, now, tz, assigned, overlapped>>

\* time passes
Tick ==
    /\ \E t \in Instants : t > now /\ now' = t
    /\ UNCHANGED <<db, seq, expenses, amount, category, note, filter,
                   editingExpense, queue, resolved, tz, assigned, overlapped>>

\* the first session: the whole life of a record, handlers overlapping
Next ==
    \/ \E text \in AmountTexts \cup {<<>>} : setAmount(text)
    \/ \E text \in CategoryTexts \cup {<<>>} : setCategory(text)
    \/ \E text \in NoteTexts \cup {<<>>} : setNote(text)
    \/ addExpense
    \/ \E id \in 1..MaxInserts : deleteExpense(id)
    \/ \E i \in 1..MaxInserts : startEdit(i)
    \/ \E text \in EditAmountTexts : editAmount(text)
    \/ cancelEdit
    \/ handleSaveEdit
    \/ Exec
    \/ Resume

Spec == Init /\ [][Next]_vars

(***************************************************************************)
(* Adding and deleting alone, the edit panel never opened.                 *)
(***************************************************************************)
NextStore ==
    \/ \E text \in AmountTexts \cup {<<>>} : setAmount(text)
    \/ \E text \in CategoryTexts \cup {<<>>} : setCategory(text)
    \/ \E text \in NoteTexts \cup {<<>>} : setNote(text)
    \/ addExpense
    \/ \E id \in 1..MaxInserts : deleteExpense(id)
    \/ Exec
    \/ Resume

SpecStore == Init /\ [][NextStore]_vars

(***************************************************************************)
(* The add form alone, with texts that validation must tell apart, on      *)
(* devices east and west of UTC while time passes.                         *)
(***************************************************************************)
InitForm ==
    /\ db = {}
    /\ seq = 0
    /\ expenses = <<>>
    /\ amount = <<>>
    /\ category = <<>>
    /\ note = <<>>
    /\ filter = "ALL"
    /\ editingExpense = null
    /\ queue = <<Request("exec", "setup", BlankRow)>>
    /\ resolved = <<>>
    /\ now = 24 * DaysFromCivil(2024, 6, 5) + 12
    /\ tz \in TimeZones
    /\ assigned = {}
    /\ overlapped = FALSE

NextForm ==
    \/ \E text \in FormAmountTexts \cup {<<>>} : setAmount(text)
    \/ \E text \in FormCategoryTexts \cup {<<>>} : setCategory(text)
    \/ \E text \in NoteTexts \cup {<<>>} : setNote(text)
    \/ addExpense
    \/ Exec
    \/ Resume
    \/ Tick

SpecForm == InitForm /\ [][NextForm]_vars

(***************************************************************************)
(* A later session: the store holds rows of earlier sessions, which the    *)
(* user edits and deletes.                                                 *)
(***************************************************************************)
StoredRows ==
    {[id |-> 1, amount |-> Num(700), category |-> <<"2">>, note |-> <<>>,
      date |-> <<2024, 6, 5>>],
     [id |-> 2, amount |-> Num(500), category |-> <<"b">>, note |-> <<"n">>,
      date |-> <<2024, 6, 11>>]}

InitEdit ==
    /\ db = StoredRows
    /\ seq = MaxOf(Ids(StoredRows))
    /\ expenses = <<>>
    /\ amount = <<>>
    /\ category = <<>>
    /\ note = <<>>
    /\ filter = "ALL"
    /\ editingExpense = null
    /\ queue = <<Request("exec", "setup", BlankRow)>>
    /\ resolved = <<>>
    /\ now = 24 * DaysFromCivil(2024, 7, 1) + 20
    /\ tz = 0
    /\ assigned = Ids(StoredRows)
    /\ overlapped = FALSE

NextEdit ==
    \/ \E i \in 1..Cardinality(StoredRows) : startEdit(i)
    \/ \E text \in PanelAmountTexts : editAmount(text)
    \/ \E text \in PanelCategoryTexts : editCategory(text)
    \/ \E text \in PanelNoteTexts : editNote(text)
    \/ cancelEdit
    \/ handleSaveEdit
    \/ \E id \in Ids(StoredRows) : deleteExpense(id)
    \/ Exec
    \/ Resume

SpecEdit == InitEdit /\ [][NextEdit]_vars

(***************************************************************************)
(* The same session with the panel's amount and category edited to one     *)
(* text each, every Save and Delete press still open to interleave.        *)
(***************************************************************************)
NextSave ==
    \/ \E i \in 1..Cardinality(StoredRows) : startEdit(i)
    \/ \E text \in EditAmountTexts : editAmount(text)
    \/ \E text \in PanelCategoryTexts : editCategory(text)
    \/ handleSaveEdit
    \/ \E id \in Ids(StoredRows) : deleteExpense(id)
    \/ Exec
    \/ Resume

SpecSave == InitEdit /\ [][NextSave]_vars

(***************************************************************************)
(* The views: records added under categories that a plain object orders   *)
(* or resolves in its own way, seen through each filter while time passes. *)
(***************************************************************************)
ViewCategoryTexts == {<<"b">>, <<"2">>, ValueOfText}

NextView ==
    \/ \E text \in AmountTexts \cup {<<>>} : setAmount(text)
    \/ \E text \in ViewCategoryTexts \cup {<<>>} : setCategory(text)
    \/ \E f \in Filters : setFilter(f)
    \/ addExpense
    \/ Exec
    \/ Resume
    \/ Tick

SpecView == InitForm /\ [][NextView]_vars

(***************************************************************************)
(* Properties                                                              *)
(***************************************************************************)
\* the database runs a statement of kind op in this step
ExecStep(op) == queue # <<>> /\ Head(queue).op = op /\ queue' = Tail(queue)

\* addExpense hands a row to INSERT in this step
InsertIssued ==
    /\ Len(queue') = Len(queue) + 1
    /\ queue'[Len(queue')].op = "insert"

\* C1: every persisted expense has amount > 0 and a non-empty trimmed
\* category, in every state reached by add, save-edit and delete from an
\* empty store.
C1_EveryRowValid ==
    \A r \in db : r.amount[1] > 0 /\ Trim(r.category) # <<>>

\* C2: whenever no handler is in flight, the list in memory holds exactly the
\* rows of the store, each once, in descending id order, however the handlers
\* overlapped.
C2_MemoryMatchesStore ==
    Idle =>
        /\ Len(expenses) = Cardinality(db)
        /\ \A r \in db : \E i \in 1..Len(expenses) : expenses[i] = r
        /\ \A i, j \in 1..Len(expenses) : i < j => expenses[i].id > expenses[j].id

\* C2's case: all handlers have completed, some of them overlapped, and the
\* store holds two rows
C2_IdleAfterOverlap ==
    Idle /\ overlapped /\ Cardinality(db) = 2 /\ seq = 2

\* a text that is no number greater than zero, or an empty category
InvalidCreateInput ==
    \/ Trim(amount) = <<>>
    \/ Number(amount) = NaN
    \/ Number(amount)[1] <= 0
    \/ Trim(category) = <<>>

\* C3: on an amount text that is non-numeric, zero or negative, or a category
\* that is empty or white space, add issues no INSERT (and so changes neither
\* the store nor the list in memory).
C3_InvalidInputWritesNothing ==
    [][InvalidCreateInput => ~InsertIssued]_vars

\* C4: a valid create hands INSERT the amount, the trimmed category and the
\* trimmed note of the form, and the INSERT adds exactly one row with those
\* fields, whose id is greater than every id in the store and was never
\* assigned before; the other rows stay.
C4_CreateAddsOneFreshRow ==
    [][/\ InsertIssued =>
            LET r == queue'[Len(queue')].row
            IN  /\ r.amount = parseFloat(amount)
                /\ r.category = Trim(category)
                /\ r.note = Trim(note)
       /\ ExecStep("insert") =>
            \E r \in db' :
                /\ r \notin db
                /\ db' = db \cup {r}
                /\ Cardinality(db') = Cardinality(db) + 1
                /\ r.id \notin assigned
                /\ \A x \in db : r.id > x.id
                /\ [r EXCEPT !.id = 0] = [Head(queue).row EXCEPT !.id = 0]]_vars

\* C4's case: a second row was inserted after the first, the one with the
\* largest id, had been deleted
C4_InsertedAfterDelete ==
    /\ \E i \in 1..Len(resolved) :
          resolved[i].op = "insert" /\ resolved[i].lastInsertRowId = 2
    /\ Ids(db) = {2}

\* C5: the date a create stores is the calendar date of the instant of
\* creation on the user's device (its local date).
C5_DateIsLocalToday ==
    [][InsertIssued =>
          queue'[Len(queue')].row.date = CivilFromDays(LocalDay(now, tz))]_vars

\* the day of the Monday on or before day n (1970-01-01, day 0, was a Thursday)
MondayOnOrBefore(n) == n - ((n + 3) % 7)

\* C6: isSameWeek(d) holds exactly when the Monday on or before d is the
\* Monday on or before the local calendar date of now, at every offset and
\* time of day.
C6_SameWeekIsSameMonday ==
    \A i \in 1..Len(expenses) :
        LET d == expenses[i].date
        IN  isSameWeek(d, now, tz) <=>
                MondayOnOrBefore(DaysFromCivil(d[1], d[2], d[3]))
                    = MondayOnOrBefore(LocalDay(now, tz))

\* C7: the UPDATE of save-edit keeps the ids and the number of rows, leaves
\* every row with another id as it was, gives the row with that id the panel's
\* fields, and changes nothing when no row has that id.
C7_UpdateTouchesOnlyThatRow ==
    [][ExecStep("update") =>
          LET r == Head(queue).row
          IN  /\ Ids(db') = Ids(db)
              /\ Cardinality(db') = Cardinality(db)
              /\ \A x \in db : x.id # r.id => x \in db'
              /\ (r.id \notin Ids(db)) => db' = db
              /\ (r.id \in Ids(db) /\ r.amount # NaN) => r \in db']_vars

\* C7's case: a save-edit has run for a record that was deleted while the
\* panel was open
C7_UpdatedMissingRow ==
    \E i \in 1..Len(resolved) :
        /\ resolved[i].op = "update"
        /\ resolved[i].ok
        /\ resolved[i].changes = 0
        /\ db # {}

\* C8: the DELETE of an id removes the row with that id and no other: one row
\* fewer when the id exists, the same rows when it does not.
C8_DeleteRemovesOnlyThatId ==
    [][ExecStep("delete") =>
          LET id == Head(queue).row.id
          IN  /\ db' \subseteq db
              /\ \A x \in db : x.id # id => x \in db'
              /\ id \notin Ids(db')
              /\ (id \in Ids(db)) => Cardinality(db') = Cardinality(db) - 1
              /\ (id \notin Ids(db)) => db' = db]_vars

\* C8's case: a delete has run for an id that is no longer in the store (the
\* row was tapped twice), next to another row
C8_DeletedMissingRow ==
    \E i \in 1..Len(resolved) :
        /\ resolved[i].op = "delete"
        /\ resolved[i].changes = 0
        /\ db # {}

\* the sum of a list of property values; NaN when one of them is no number
RECURSIVE SumValues(_)
SumValues(vals) ==
    IF vals = <<>> THEN 0
    ELSE SumValues(SubSeq(vals, 1, Len(vals) - 1)) + vals[Len(vals)].v

TotalOfValues(vals) ==
    IF \A i \in 1..Len(vals) : vals[i].num THEN Num(SumValues(vals)) ELSE NaN

\* C9: under every filter, the per-category totals of the filtered records
\* sum to the overall total of the same records.
C9_CategoryTotalsSumToTotal ==
    TotalOfValues(ObjectValues(totalsByCategory)) = totalSpending

\* the category a record is charted under
ChartCategory(e) == IF e.category = <<>> THEN OtherText ELSE e.category

\* the distinct elements of a sequence, in the order of first occurrence
RECURSIVE FirstOccurrences(_)
FirstOccurrences(s) ==
    IF s = <<>> THEN <<>>
    ELSE LET p == FirstOccurrences(SubSeq(s, 1, Len(s) - 1))
             x == s[Len(s)]
         IN  IF \E i \in 1..Len(p) : p[i] = x THEN p ELSE Append(p, x)

RECURSIVE SumOfCategory(_, _)
SumOfCategory(list, k) ==
    IF list = <<>> THEN 0
    ELSE SumOfCategory(Tail(list), k)
            + (IF ChartCategory(Head(list)) = k THEN Head(list).amount[1] ELSE 0)

\* C10: the chart's labels are the categories of the records in order of first
\* occurrence ("Other" for an empty one), its values the sums of the amounts
\* of each, and labels and values are those of the per-category totals on
\* display, but for "Other".
C10_ChartSeriesInFirstOccurrenceOrder ==
    LET labels == getChartData.labels
        values == getChartData.values
        cats == [i \in 1..Len(expenses) |-> ChartCategory(expenses[i])]
        keys == ObjectKeys(totalsByCategory)
    IN  /\ Len(labels) = Len(values)
        /\ Len(labels) = Len(FirstOccurrences(cats))
        /\ \A i \in 1..Len(labels) :
              /\ labels[i] = FirstOccurrences(cats)[i]
              /\ values[i].num
              /\ values[i].v = SumOfCategory(expenses, labels[i])
        /\ Len(keys) = Len(labels)
        /\ \A i \in 1..Len(keys) :
              /\ labels[i] = (IF keys[i] = <<>> THEN OtherText ELSE keys[i])
              /\ values[i] = ObjectValues(totalsByCategory)[i]

=============================================================================
